---- MODULE Spec2Model ----
(***************************************************************************)
(* Huffman compression (src/huffman.py) and its round-trip client          *)
(* (src/gradescope.py).                                                    *)
(*                                                                         *)
(* Python values are represented as follows.                               *)
(*   bytes / list of int   a sequence of integers                          *)
(*   str of '0'/'1'        a sequence over {0, 1}                          *)
(*   dict                  a sequence of <<key, value>> pairs with distinct*)
(*                         keys, in insertion order                        *)
(*   Node objects          an arena: four sequences indexed by the node's  *)
(*                         identity, which is its creation rank            *)
(*   a raised exception    a record [raised |-> name, at |-> function]     *)
(***************************************************************************)
EXTENDS Integers, Sequences, FiniteSets, TLC

VARIABLES message, pc, arena, nodes, pops, tree, encoded, compressed,
          container, bitstring, decoder_ring, output, raised

vars == <<message, pc, arena, nodes, pops, tree, encoded, compressed,
          container, bitstring, decoder_ring, output, raised>>

(***************************************************************************)
(* Bounds of the model.                                                    *)
(***************************************************************************)
\* number of distinct byte values the short inputs draw from
NumSyms == 4
\* greatest length of a short input
MaxLen == 5
\* greatest length of a bitstring handed directly to decode
MaxBits == 4
\* greatest length of a code in a table handed directly to decode
MaxCodeLen == 2
\* greatest number of entries of a table handed directly to decode
MaxRing == 2

(***************************************************************************)
(* Program constants.                                                      *)
(***************************************************************************)
\* bits per packed group: encoded_msg[bit: bit + 8]
ByteBits == 8
\* bytes([...]) accepts only values in range(0, 256)
ByteRange == 256
\* Python's None (a Node's byte of an internal node, a missing child)
None == -1

Symbols == 0..(NumSyms - 1)

NoError == [raised |-> "none", at |-> "none"]
Error(name, where) == [raised |-> name, at |-> where]

(***************************************************************************)
(* str and bytes helpers.                                                  *)
(***************************************************************************)
\* c * n for a one-character string c
Repeat(c, n) == [i \in 1..n |-> c]

\* s[:k] and s[k:] for 0 <= k
Take(s, k) == SubSeq(s, 1, IF k < Len(s) THEN k ELSE Len(s))
Drop(s, k) == SubSeq(s, k + 1, Len(s))

\* s[:-k] for k > 0: everything but the last k characters
DropLast(s, k) == Take(s, IF Len(s) - k > 0 THEN Len(s) - k ELSE 0)

\* str.find('1'): the lowest index (from 0) of a '1', or -1
find(s) ==
  LET ones == {i \in 1..Len(s) : s[i] = 1}
  IN IF ones = {} THEN -1
     ELSE (CHOOSE i \in ones : \A j \in ones : i <= j) - 1

\* int(group, 2) for a group of at most 8 bits
RECURSIVE int2(_)
int2(group) ==
  IF group = <<>> THEN 0
  ELSE 2 * int2(SubSeq(group, 1, Len(group) - 1)) + group[Len(group)]

\* the 8 binary digits of one byte, most significant first
RECURSIVE Pow2(_)
Pow2(n) == IF n = 0 THEN 1 ELSE 2 * Pow2(n - 1)
ByteDigits(b) == [j \in 1..ByteBits |-> (b \div Pow2(ByteBits - j)) % 2]

\* A fold by halves computes its left half before it starts on the right
\* one: the test evaluates v where it stands (it is TRUE of every value).
Evaluated(v) == v = v

(***************************************************************************)
(* dict helpers.                                                           *)
(***************************************************************************)
DictKeys(d) == {d[i][1] : i \in 1..Len(d)}
DictHas(d, k) == k \in DictKeys(d)
DictGet(d, k) == d[CHOOSE i \in 1..Len(d) : d[i][1] = k][2]
\* d[k] = v: a present key keeps its position, a new key goes last
DictSet(d, k, v) ==
  IF DictHas(d, k)
  THEN [d EXCEPT ![CHOOSE i \in 1..Len(d) : d[i][1] = k] = <<k, v>>]
  ELSE Append(d, <<k, v>>)

\* Counter(message): counts keyed in order of first appearance.  The loop
\* over the message is folded over [lo, hi] by halves.
RECURSIVE CounterFrom(_, _, _, _)
CounterFrom(msg, lo, hi, d) ==
  IF lo > hi THEN d
  ELSE IF lo = hi
       THEN DictSet(d, msg[lo], (IF DictHas(d, msg[lo]) THEN DictGet(d, msg[lo]) ELSE 0) + 1)
       ELSE LET mid == (lo + hi) \div 2
                half == CounterFrom(msg, lo, mid, d)
            IN IF Evaluated(half) THEN CounterFrom(msg, mid + 1, hi, half) ELSE d
Counter(msg) == CounterFrom(msg, 1, Len(msg), <<>>)

(***************************************************************************)
(* class Node.                                                             *)
(***************************************************************************)
EmptyArena == [byte |-> <<>>, frequency |-> <<>>, left |-> <<>>, right |-> <<>>]

\* Node(byte, frequency): the new node's identity is Len(N.byte) + 1
NewNode(N, byte, frequency) ==
  [byte |-> Append(N.byte, byte),
   frequency |-> Append(N.frequency, frequency),
   left |-> Append(N.left, None),
   right |-> Append(N.right, None)]

\* Node.__lt__ with the comparison turned around
gt(N, self, other) == N.frequency[self] > N.frequency[other]

\* Node.__lt__
lt(N, self, other) == N.frequency[self] < N.frequency[other]

(***************************************************************************)
(* heapq, on a list of node identities; positions count from 0.            *)
(***************************************************************************)
At(heap, pos) == heap[pos + 1]
Put(heap, pos, item) == [heap EXCEPT ![pos + 1] = item]

RECURSIVE siftdownLoop(_, _, _, _, _)
siftdownLoop(N, heap, startpos, pos, newitem) ==
  IF pos > startpos
  THEN LET parentpos == (pos - 1) \div 2
           parent == At(heap, parentpos)
       IN IF lt(N, newitem, parent)
          THEN siftdownLoop(N, Put(heap, pos, parent), startpos, parentpos, newitem)
          ELSE Put(heap, pos, newitem)
  ELSE Put(heap, pos, newitem)

siftdown(N, heap, startpos, pos) ==
  siftdownLoop(N, heap, startpos, pos, At(heap, pos))

RECURSIVE siftupLoop(_, _, _, _)
siftupLoop(N, heap, pos, newitem) ==
  LET endpos == Len(heap)
      childpos == 2 * pos + 1
      rightpos == childpos + 1
  IN IF childpos < endpos
     THEN LET child == IF rightpos < endpos
                          /\ ~lt(N, At(heap, childpos), At(heap, rightpos))
                       THEN rightpos ELSE childpos
          IN siftupLoop(N, Put(heap, pos, At(heap, child)), child, newitem)
     ELSE [heap |-> Put(heap, pos, newitem), pos |-> pos]

siftup(N, heap, pos) ==
  LET leaf == siftupLoop(N, heap, pos, At(heap, pos))
  IN siftdown(N, leaf.heap, pos, leaf.pos)

RECURSIVE heapifyFrom(_, _, _)
heapifyFrom(N, heap, i) ==
  IF i < 0 THEN heap ELSE heapifyFrom(N, siftup(N, heap, i), i - 1)

heapify(N, heap) == heapifyFrom(N, heap, (Len(heap) \div 2) - 1)

heappop(N, heap) ==
  LET lastelt == heap[Len(heap)]
      rest == SubSeq(heap, 1, Len(heap) - 1)
  IN IF rest # <<>>
     THEN [item |-> rest[1], heap |-> siftup(N, Put(rest, 0, lastelt), 0)]
     ELSE [item |-> lastelt, heap |-> rest]

\* heappush without the sift: the item is only appended
appendOnly(N, heap, item) == Append(heap, item)

heappush(N, heap, item) ==
  siftdown(N, Append(heap, item), 0, Len(heap))

(***************************************************************************)
(* make_huffman_tree.                                                      *)
(***************************************************************************)
\* nodes = [Node(byte, freq) for byte, freq in frequencies.items()]
RECURSIVE MakeNodes(_, _)
MakeNodes(frequencies, N) ==
  IF frequencies = <<>> THEN N
  ELSE MakeNodes(Tail(frequencies),
                 NewNode(N, Head(frequencies)[1], Head(frequencies)[2]))

\* one iteration of the while loop; pops records, for each of the two
\* extractions, the list it was made from and the node it returned
Merge(N, heap) ==
  LET first == heappop(N, heap)
      second == heappop(N, first.heap)
      left_child == first.item
      right_child == second.item
      created == NewNode(N, None, N.frequency[left_child] + N.frequency[right_child])
      parent == Len(created.byte)
      linked == [created EXCEPT !.left[parent] = left_child,
                                !.right[parent] = right_child]
  IN [arena |-> linked,
      nodes |-> heappush(linked, second.heap, parent),
      pops |-> << [heap |-> heap, item |-> first.item],
                  [heap |-> first.heap, item |-> second.item] >>]

\* return nodes[0] that answers None for the empty list
RootOrNone(heap) ==
  [error |-> NoError, node |-> IF heap = <<>> THEN None ELSE At(heap, 0)]

\* return nodes[0]
Root(heap) ==
  IF heap = <<>>
  THEN [error |-> Error("IndexError", "make_huffman_tree"), node |-> None]
  ELSE [error |-> NoError, node |-> At(heap, 0)]

(***************************************************************************)
(* traverse_tree: the code table as it stands after the call.              *)
(***************************************************************************)
\* traverse_tree that appends '0' on both sides
RECURSIVE traverseSameBit(_, _, _, _)
traverseSameBit(N, node, code, code_table) ==
  IF node = None THEN code_table
  ELSE LET here == IF N.byte[node] # None
                   THEN DictSet(code_table, N.byte[node], code)
                   ELSE code_table
           afterLeft == traverseSameBit(N, N.left[node], Append(code, 0), here)
       IN traverseSameBit(N, N.right[node], Append(code, 0), afterLeft)

RECURSIVE traverse_tree(_, _, _, _)
traverse_tree(N, node, code, code_table) ==
  IF node = None THEN code_table
  ELSE LET here == IF N.byte[node] # None
                   THEN DictSet(code_table, N.byte[node], code)
                   ELSE code_table
           afterLeft == traverse_tree(N, N.left[node], Append(code, 0), here)
       IN traverse_tree(N, N.right[node], Append(code, 1), afterLeft)

(***************************************************************************)
(* encode, from the tree on.                                               *)
(***************************************************************************)
\* ''.join([code_table[byte] for byte in message]), folded by halves
RECURSIVE join(_, _, _, _)
join(code_table, msg, lo, hi) ==
  IF lo > hi THEN <<>>
  ELSE IF lo = hi THEN DictGet(code_table, msg[lo])
       ELSE LET mid == (lo + hi) \div 2
            IN join(code_table, msg, lo, mid) \o join(code_table, msg, mid + 1, hi)

encode_tail(N, root, msg) ==
  LET code_table == traverse_tree(N, root, <<>>, <<>>)
  IN [set |-> TRUE, msg |-> join(code_table, msg, 1, Len(msg)), ring |-> code_table]

(***************************************************************************)
(* bytes(list): every element must be in range(0, 256).                    *)
(***************************************************************************)
\* bytes(list) that wraps every element into range(0, 256)
bytesWrapped(list, where) ==
  [error |-> NoError, bytes |-> [i \in 1..Len(list) |-> list[i] % ByteRange]]

bytesOf(list, where) ==
  IF \A i \in 1..Len(list) : list[i] \in 0..(ByteRange - 1)
  THEN [error |-> NoError, bytes |-> list]
  ELSE [error |-> Error("ValueError", where), bytes |-> <<>>]

(***************************************************************************)
(* compress, after its call of encode.                                     *)
(***************************************************************************)
\* pad, and encoded_msg += '0' * pad
padding(encoded_msg) ==
  IF Len(encoded_msg) % ByteBits # 0
  THEN ByteBits - (Len(encoded_msg) % ByteBits) ELSE 0

compress_tail(encoded_msg, ring) ==
  LET pad == padding(encoded_msg)
      padded == encoded_msg \o Repeat(0, pad)
      pad2 == find(padded)
      groups == [k \in 1..((Len(padded) + ByteBits - 1) \div ByteBits) |->
                   int2(SubSeq(padded, ByteBits * (k - 1) + 1,
                               IF ByteBits * k < Len(padded)
                               THEN ByteBits * k ELSE Len(padded)))]
      compressed_msg == bytesOf(groups, "compress")
      header == bytesOf(<<pad, pad2>>, "compress")
  IN IF compressed_msg.error # NoError
     THEN [error |-> compressed_msg.error, bytes |-> <<>>, ring |-> <<>>]
     ELSE IF header.error # NoError
          THEN [error |-> header.error, bytes |-> <<>>, ring |-> <<>>]
          ELSE [error |-> NoError,
                bytes |-> header.bytes \o compressed_msg.bytes, ring |-> ring]

(***************************************************************************)
(* decode.                                                                 *)
(***************************************************************************)
\* { value: key for key, value in decoder_ring.items() }
RECURSIVE Invert(_, _)
Invert(ring, code_to_byte) ==
  IF ring = <<>> THEN code_to_byte
  ELSE Invert(Tail(ring), DictSet(code_to_byte, Head(ring)[2], Head(ring)[1]))

\* the for loop without code = "" after a match
RECURSIVE scanNoReset(_, _, _, _, _)
scanNoReset(code_to_byte, msg, lo, hi, st) ==
  IF lo > hi THEN st
  ELSE IF lo = hi
       THEN LET code == Append(st.code, msg[lo])
            IN [code |-> code,
                original_message |->
                  IF DictHas(code_to_byte, code)
                  THEN Append(st.original_message, DictGet(code_to_byte, code))
                  ELSE st.original_message]
       ELSE LET mid == (lo + hi) \div 2
                half == scanNoReset(code_to_byte, msg, lo, mid, st)
            IN IF Evaluated(half)
               THEN scanNoReset(code_to_byte, msg, mid + 1, hi, half) ELSE st

\* the for loop over message[lo..hi], folded by halves, from the loop state
\* st = [code, original_message]
RECURSIVE scan(_, _, _, _, _)
scan(code_to_byte, msg, lo, hi, st) ==
  IF lo > hi THEN st
  ELSE IF lo = hi
       THEN LET code == Append(st.code, msg[lo])
            IN IF DictHas(code_to_byte, code)
               THEN [code |-> <<>>,
                     original_message |->
                       Append(st.original_message, DictGet(code_to_byte, code))]
               ELSE [code |-> code, original_message |-> st.original_message]
       ELSE LET mid == (lo + hi) \div 2
                half == scan(code_to_byte, msg, lo, mid, st)
            IN IF Evaluated(half)
               THEN scan(code_to_byte, msg, mid + 1, hi, half) ELSE st

\* code is the candidate left when the loop ends; decode returns only bytes
decode(msg, ring) ==
  LET code_to_byte == Invert(ring, <<>>)
      end == scan(code_to_byte, msg, 1, Len(msg),
                  [code |-> <<>>, original_message |-> <<>>])
      result == bytesOf(end.original_message, "decode")
  IN [set |-> TRUE, error |-> result.error, bytes |-> result.bytes, code |-> end.code]

(***************************************************************************)
(* decompress.                                                             *)
(***************************************************************************)
\* int.from_bytes(body, byteorder='big'), held as its binary digits with
\* the leading zeros the bytes carry
from_bytes(body) ==
  [k \in 1..(ByteBits * Len(body)) |->
     ByteDigits(body[((k - 1) \div ByteBits) + 1])[((k - 1) % ByteBits) + 1]]

\* bin(n)[2:]: the digits from the first 1 on, '0' for zero
bin(digits) ==
  IF find(digits) = -1 THEN <<0>> ELSE Drop(digits, find(digits))

\* unpack that does not put the leading zeros back
unpackNoZeros(msg) ==
  LET pad == msg[1]
      digits == bin(from_bytes(Drop(msg, 2)))
  IN IF pad # 0 THEN DropLast(digits, pad) ELSE digits

\* the bitstream decompress rebuilds from a container of at least 2 bytes
unpack(msg) ==
  LET pad == msg[1]
      pad2 == msg[2]
      digits == bin(from_bytes(Drop(msg, 2)))
      unpadded == IF pad # 0 THEN DropLast(digits, pad) ELSE digits
  IN Repeat(0, pad2) \o unpadded

decompress(msg, ring) ==
  IF Len(msg) < 2
  THEN [set |-> TRUE, error |-> Error("IndexError", "decompress"),
        bytes |-> <<>>, code |-> <<>>]
  ELSE decode(unpack(msg), ring)

(***************************************************************************)
(* Inputs.                                                                 *)
(***************************************************************************)
\* every byte sequence of length at most MaxLen over the symbols
ShortInputs == UNION {[1..n -> Symbols] : n \in 0..MaxLen}

\* two runs, each one byte short of, at or one byte past the header's range:
\* the inputs whose padded bitstream may start with more than 255 zeros
RunLens == (ByteRange - 1)..(ByteRange + 1)
LongInputs == {Repeat(0, n) \o Repeat(1, m) : n \in RunLens, m \in RunLens}

Inputs == ShortInputs \cup LongInputs

\* the strings of '0' and '1' of length at most n
BitStrings(n) == UNION {[1..k -> {0, 1}] : k \in 0..n}

\* the tables a caller may hand to decode: at most MaxRing entries with
\* distinct bytes and any codes of length at most MaxCodeLen
Rings ==
  {r \in UNION {[1..k -> Symbols \X BitStrings(MaxCodeLen)] : k \in 1..MaxRing} :
     \A i, j \in 1..Len(r) : i # j => r[i][1] # r[j][1]}

(***************************************************************************)
(* The state after construction.                                           *)
(***************************************************************************)
NotEncoded == [set |-> FALSE, msg |-> <<>>, ring |-> <<>>]
NotCompressed == [set |-> FALSE, bytes |-> <<>>, ring |-> <<>>]
NoOutput == [set |-> FALSE, error |-> NoError, bytes |-> <<>>, code |-> <<>>]

\* gradescope.py and the -c / -v entries: encode is about to be called
Init ==
  /\ message \in Inputs
  /\ pc = "encode"
  /\ arena = EmptyArena
  /\ nodes = <<>>
  /\ pops = <<>>
  /\ tree = None
  /\ encoded = NotEncoded
  /\ compressed = NotCompressed
  /\ container = <<>>
  /\ bitstring = <<>>
  /\ decoder_ring = <<>>
  /\ output = NoOutput
  /\ raised = NoError

\* the -w entry: decode is about to be called on a caller's string and table
InitDecode ==
  /\ message = <<>>
  /\ pc = "decode"
  /\ arena = EmptyArena
  /\ nodes = <<>>
  /\ pops = <<>>
  /\ tree = None
  /\ encoded = NotEncoded
  /\ compressed = NotCompressed
  /\ container = <<>>
  /\ bitstring \in BitStrings(MaxBits)
  /\ decoder_ring \in Rings
  /\ output = NoOutput
  /\ raised = NoError

(***************************************************************************)
(* Actions.                                                                *)
(***************************************************************************)
\* encode: Counter(message); make_huffman_tree up to heapq.heapify(nodes)
MakeHeap ==
  /\ pc = "encode"
  /\ LET N == MakeNodes(Counter(message), EmptyArena)
     IN /\ arena' = N
        /\ nodes' = heapify(N, [i \in 1..Len(N.byte) |-> i])
  /\ pc' = "merge"
  /\ UNCHANGED <<message, pops, tree, encoded, compressed, container,
                 bitstring, decoder_ring, output, raised>>

\* make_huffman_tree: one iteration of while len(nodes) > 1
MergeStep ==
  /\ pc = "merge"
  /\ Len(nodes) > 1
  /\ LET m == Merge(arena, nodes)
     IN /\ arena' = m.arena
        /\ nodes' = m.nodes
        /\ pops' = m.pops
  /\ UNCHANGED <<message, pc, tree, encoded, compressed, container,
                 bitstring, decoder_ring, output, raised>>

\* make_huffman_tree: return nodes[0]
ReturnRoot ==
  /\ pc = "merge"
  /\ ~(Len(nodes) > 1)
  /\ LET r == Root(nodes)
     IN /\ tree' = r.node
        /\ raised' = r.error
        /\ pc' = IF r.error = NoError THEN "tree" ELSE "raised"
  /\ UNCHANGED <<message, arena, nodes, pops, encoded, compressed, container,
                 bitstring, decoder_ring, output>>

\* encode: traverse_tree, the join, and the return
EncodeReturn ==
  /\ pc = "tree"
  /\ encoded' = encode_tail(arena, tree, message)
  /\ pc' = "encoded"
  /\ UNCHANGED <<message, arena, nodes, pops, tree, compressed, container,
                 bitstring, decoder_ring, output, raised>>

\* decode of what encode returned
DecodeEncoded ==
  /\ pc = "encoded"
  /\ bitstring' = encoded.msg
  /\ decoder_ring' = encoded.ring
  /\ output' = decode(encoded.msg, encoded.ring)
  /\ raised' = decode(encoded.msg, encoded.ring).error
  /\ pc' = "decoded"
  /\ UNCHANGED <<message, arena, nodes, pops, tree, encoded, compressed,
                 container>>

\* compress: from the return of encode to its own return
Compress ==
  /\ pc = "encoded"
  /\ LET c == compress_tail(encoded.msg, encoded.ring)
     IN /\ raised' = c.error
        /\ compressed' = IF c.error = NoError
                         THEN [set |-> TRUE, bytes |-> c.bytes, ring |-> c.ring]
                         ELSE compressed
        /\ pc' = IF c.error = NoError THEN "compressed" ELSE "raised"
  /\ UNCHANGED <<message, arena, nodes, pops, tree, encoded, container,
                 bitstring, decoder_ring, output>>

\* decompress of the container compress returned, whole or with its last
\* byte dropped
Decompress ==
  /\ pc = "compressed"
  /\ \E c \in {compressed.bytes, DropLast(compressed.bytes, 1)} :
       /\ container' = c
       /\ output' = decompress(c, compressed.ring)
       /\ raised' = decompress(c, compressed.ring).error
       /\ bitstring' = IF Len(c) < 2 THEN <<>> ELSE unpack(c)
  /\ decoder_ring' = compressed.ring
  /\ pc' = "decompressed"
  /\ UNCHANGED <<message, arena, nodes, pops, tree, encoded, compressed>>

\* decode of a caller's string and table
DecodeCall ==
  /\ pc = "decode"
  /\ output' = decode(bitstring, decoder_ring)
  /\ raised' = decode(bitstring, decoder_ring).error
  /\ pc' = "decoded"
  /\ UNCHANGED <<message, arena, nodes, pops, tree, encoded, compressed,
                 container, bitstring, decoder_ring>>

Next ==
  \/ MakeHeap
  \/ MergeStep
  \/ ReturnRoot
  \/ EncodeReturn
  \/ DecodeEncoded
  \/ Compress
  \/ Decompress

Spec == Init /\ [][Next]_vars

NextDecode == DecodeCall

SpecDecode == InitDecode /\ [][NextDecode]_vars

(***************************************************************************)
(* What the properties speak of.                                           *)
(***************************************************************************)
\* the distinct bytes of a sequence, and how often one occurs in it
Distinct(msg) == {msg[i] : i \in 1..Len(msg)}
Occurrences(msg, b) == Cardinality({i \in 1..Len(msg) : msg[i] = b})

\* p is a prefix of q, or equal to it
IsPrefix(p, q) == Len(p) <= Len(q) /\ SubSeq(q, 1, Len(p)) = p

\* the number of '0' bits before the first '1' bit of s, Len(s) when s has
\* no '1'
LeadingZeros(s) == Cardinality({k \in 1..Len(s) : \A j \in 1..k : s[j] = 0})

\* the bitstream of an encoded message after padding to a byte boundary
Padded(encoded_msg) == encoded_msg \o Repeat(0, padding(encoded_msg))

\* the sum, over the symbols of msg, of the length of their codes in ring
RECURSIVE CodeLengthSum(_, _)
CodeLengthSum(msg, ring) ==
  IF ring = <<>> THEN 0
  ELSE Occurrences(msg, Head(ring)[1]) * Len(Head(ring)[2])
       + CodeLengthSum(msg, Tail(ring))

\* the weights of the nodes of a heap list
Weights(heap) == {arena.frequency[heap[i]] : i \in 1..Len(heap)}

\* the container handed to decompress is the one compress returned, whole
WholeContainer == pc = "decompressed" /\ container = compressed.bytes

(***************************************************************************)
(* C1.  Round trip: for every non-empty input, compress returns a          *)
(* container and a table, and decompress of them returns the input.        *)
(* Stated as claimed; compress raises on some non-empty inputs.            *)
(***************************************************************************)
C1_RoundTrip ==
  message # <<>> =>
    /\ pc # "raised"
    /\ WholeContainer => output.error = NoError /\ output.bytes = message

(***************************************************************************)
(* C2.  decode never returns bytes when its scan ends with a non-empty     *)
(* candidate code: it ends in an error.  Stated as claimed; decode         *)
(* returns the symbols decoded so far.                                     *)
(***************************************************************************)
C2_LeftoverRaises ==
  pc = "decoded" /\ output.code # <<>> => output.error # NoError

(***************************************************************************)
(* C3.  On the empty input the frequency table is empty, the tree builder  *)
(* raises, and neither encode nor compress returns anything.               *)
(***************************************************************************)
C3_EmptyInputRaises ==
  message = <<>> =>
    /\ pc \in {"encode", "merge", "raised"}
    /\ pc = "merge" => nodes = <<>> /\ Root(nodes).error # NoError
    /\ pc = "raised" => raised = Error("IndexError", "make_huffman_tree")
    /\ ~encoded.set /\ ~compressed.set /\ ~output.set

C3_Witness == message = <<>> /\ pc = "raised"

(***************************************************************************)
(* C4.  When the padded bitstream starts with more than 255 zero bits,     *)
(* compress raises and returns no container; the header byte 1 of a        *)
(* container it returns is the count itself, never a wrapped value.        *)
(***************************************************************************)
C4_HeaderOverflowRaises ==
  /\ encoded.set /\ LeadingZeros(Padded(encoded.msg)) > ByteRange - 1 =>
       /\ ~compressed.set
       /\ pc \in {"encoded", "decoded", "raised"}
       /\ pc = "raised" => raised = Error("ValueError", "compress")
       /\ compress_tail(encoded.msg, encoded.ring).error # NoError
  /\ compressed.set =>
       compressed.bytes[2] = LeadingZeros(Padded(encoded.msg))

C4_Witness ==
  /\ pc = "raised"
  /\ raised.at = "compress"
  /\ find(Padded(encoded.msg)) > ByteRange - 1

(***************************************************************************)
(* C5.  decode ends in an error whenever its table gives two bytes the     *)
(* same code.  Stated as claimed; decode keeps the byte inserted last.     *)
(***************************************************************************)
C5_DuplicateCodeRaises ==
  pc = "decoded"
  /\ (\E i, j \in 1..Len(decoder_ring) :
        i # j /\ decoder_ring[i][2] = decoder_ring[j][2])
  => output.error # NoError

(***************************************************************************)
(* C6.  The table encode returns has exactly one entry per distinct byte   *)
(* of the input, and no code is a prefix of, or equal to, the code of      *)
(* another byte.                                                           *)
(***************************************************************************)
C6_PrefixFree ==
  encoded.set =>
    /\ DictKeys(encoded.ring) = Distinct(message)
    /\ Len(encoded.ring) = Cardinality(Distinct(message))
    /\ \A i, j \in 1..Len(encoded.ring) :
         i # j => ~IsPrefix(encoded.ring[i][2], encoded.ring[j][2])

C6_Witness ==
  /\ encoded.set
  /\ Len(encoded.ring) >= 3
  /\ \E i, j \in 1..Len(encoded.ring) :
       Len(encoded.ring[i][2]) < Len(encoded.ring[j][2])

(***************************************************************************)
(* C7.  Of two bytes of the input, the one that occurs more often has a    *)
(* code that is no longer.                                                 *)
(***************************************************************************)
C7_Monotone ==
  encoded.set =>
    \A i, j \in 1..Len(encoded.ring) :
      Occurrences(message, encoded.ring[i][1]) > Occurrences(message, encoded.ring[j][1])
      => Len(encoded.ring[i][2]) <= Len(encoded.ring[j][2])

C7_Witness ==
  /\ encoded.set
  /\ \E i, j \in 1..Len(encoded.ring) :
       /\ Occurrences(message, encoded.ring[i][1]) > Occurrences(message, encoded.ring[j][1])
       /\ Len(encoded.ring[i][2]) < Len(encoded.ring[j][2])

C9_PackingInvariant ==
  WholeContainer =>
    /\ bitstring = encoded.msg
    /\ Len(bitstring) = CodeLengthSum(message, encoded.ring)

\* a container with padding bits and with leading zeros to restore
C9_Witness == WholeContainer /\ container[1] > 0 /\ container[2] > 0

(***************************************************************************)
(* C10.  For an input with at least two distinct bytes, decode of what     *)
(* encode returned is the input, and the scan ends with an empty candidate.*)
(***************************************************************************)
C10_EncodeDecode ==
  pc = "decoded" /\ Cardinality(Distinct(message)) >= 2 =>
    /\ output.error = NoError
    /\ output.bytes = message
    /\ output.code = <<>>

C10_Witness ==
  pc = "decoded" /\ Cardinality(Distinct(message)) >= 3 /\ output.bytes = message

====
